---- MODULE Spec2Model ----
(***************************************************************************)
(* Mutation execution core of the management-plane HTTP handlers:          *)
(*   api/http/handler/endpoints/endpoint_registry_access.go                *)
(*   api/http/handler/settings/settings_update.go                          *)
(* Each handler is one action; its body is an operator over the store      *)
(* handle's view, the request and the answers of the collaborators         *)
(* (store, cluster client, helm check, snapshot and file services).        *)
(***************************************************************************)
EXTENDS Integers, Sequences, FiniteSets, TLC

VARIABLES
    featureNoTx,   \* featureflags.IsEnabled(portainer.FeatureNoTx), process-wide
    settings,      \* the persisted Settings Aggregate
    registry,      \* the persisted registry record (RegistryAccesses per environment)
    secrets,       \* external cluster state: namespaces holding the registry secret, per environment
    users,         \* the persisted users: password hash and TokenIssueAt
    nreq,          \* number of requests served so far
    last,          \* what the last request read, did and answered
    race,          \* requests in flight between their read and their write
    retry,         \* the update-registry-access a client is repeating
    passwd         \* update-password requests between their read and their write

vars == <<featureNoTx, settings, registry, secrets, users, nreq, last, race, retry, passwd>>

----------------------------------------------------------------------------
(* Bounds of the model *)

\* longest namespace list in a payload
MaxLen == 2
\* requests served in one behaviour
MaxRequests == 2

Namespaces == {"ns1", "ns2", "ns3"}

NamespaceLists == UNION {[1..n -> Namespaces] : n \in 0..MaxLen}

Range(s) == {s[i] : i \in DOMAIN s}

\* all orders in which a range over a Go map of these keys may visit them
Perms(S) == {p \in [1..Cardinality(S) -> S] : Range(p) = S}

----------------------------------------------------------------------------
(* Errors: httperror.HandlerError (classified) and plain Go errors *)

NoError == [kind |-> "none", code |-> 0, msg |-> ""]
PlainError(m) == [kind |-> "plain", code |-> 0, msg |-> m]
BadRequest(m) == [kind |-> "http", code |-> 400, msg |-> m]
Forbidden(m) == [kind |-> "http", code |-> 403, msg |-> m]
NotFound(m) == [kind |-> "http", code |-> 404, msg |-> m]
InternalServerError(m) == [kind |-> "http", code |-> 500, msg |-> m]

\* response.Empty / response.JSON
Success(c) == [kind |-> "http", code |-> c, msg |-> ""]

----------------------------------------------------------------------------
(* Store handles.  A write through a handle answers ok or an error; an    *)
(* error does not say whether the value reached the handle's target, so   *)
(* both outcomes of a failed write are kept.                               *)

WriteOutcomes == {"ok", "error", "errorApplied"}

\* the handle's view of an aggregate after a write of val with this outcome
Written(view, val, outcome) == IF outcome = "error" THEN view ELSE val

WriteError(outcome) == outcome # "ok"

----------------------------------------------------------------------------
(* Set Reconciler: stringSet, toSet, setDifference *)

\* stringSet{}: a Go map[string]bool is a function on its keys
EmptyStringSet == [el \in {} |-> TRUE]

\* set[el] = true
MapPut(set, el) == [x \in (DOMAIN set) \cup {el} |-> TRUE]

\* set[el] of a Go map: the zero value false for a missing key
MapGet(set, el) == IF el \in DOMAIN set THEN set[el] ELSE FALSE

RECURSIVE toSet(_)
toSet(list) ==
    IF list = <<>> THEN EmptyStringSet
    ELSE MapPut(toSet(SubSeq(list, 1, Len(list) - 1)), list[Len(list)])

setDifference_swapped(setA, setB) ==
    [el \in {e \in DOMAIN setB : ~MapGet(setA, e)} |-> TRUE]

setDifference_noTest(setA, setB) ==
    [el \in DOMAIN setA |-> TRUE]

setDifference(setA, setB) ==
    [el \in {e \in DOMAIN setA : ~MapGet(setB, e)} |-> TRUE]

----------------------------------------------------------------------------
(* Environments and the registry *)

KubernetesTypes ==
    {"KubernetesLocalEnvironment", "AgentOnKubernetesEnvironment",
     "EdgeAgentOnKubernetesEnvironment"}

\* tx.Endpoint(): environment 1 is namespace-oriented, environment 2 is not;
\* no handler modelled here writes an environment
endpoints ==
    (1 :> [ID |-> 1, Type |-> "KubernetesLocalEnvironment"]) @@
    (2 :> [ID |-> 2, Type |-> "DockerEnvironment"])

KubeEndpointIDs == {id \in DOMAIN endpoints : endpoints[id].Type \in KubernetesTypes}

\* route variables: the identifiers that exist, one that does not, and a
\* text that is no number
RouteVars(ids) ==
    {[ok |-> TRUE, val |-> v] : v \in ids \cup {3}} \cup {[ok |-> FALSE, val |-> 0]}

RegistryIDs == {1}

\* the user and the team access policies of a payload or of a stored record
AccessPolicies == {<<{}, {}>>, <<{1}, {2}>>}

\* portainer.RegistryAccessPolicies{}
EmptyRegistryAccessPolicies ==
    [UserAccessPolicies |-> {}, TeamAccessPolicies |-> {}, Namespaces |-> <<>>]

\* a registry whose RegistryAccesses is nil
NewRegistry == [ID |-> 1, RegistryAccesses |-> <<>>]

RegistryAccessPayloads ==
    {[UserAccessPolicies |-> p[1], TeamAccessPolicies |-> p[2], Namespaces |-> n] :
        p \in AccessPolicies, n \in NamespaceLists}

\* the payload of a request that ends before its body is decoded
UnreadPayload == EmptyRegistryAccessPolicies

----------------------------------------------------------------------------
(* Secret Provisioner: the cluster client of one environment *)

Call(op, arg, ok) == [op |-> op, arg |-> arg, ok |-> ok]

\* the secrets of one environment after the calls of a log, in order: a call
\* that answered an error changed nothing; deleting an absent secret and
\* creating a present one are no-ops
RECURSIVE ApplyCalls(_, _)
ApplyCalls(present, calls) ==
    IF calls = <<>> THEN present
    ELSE LET c == Head(calls)
             next == IF ~c.ok THEN present
                     ELSE IF c.op = "DeleteRegistrySecret" THEN present \ {c.arg}
                     ELSE IF c.op = "CreateRegistrySecret" THEN present \cup {c.arg}
                     ELSE present
         IN ApplyCalls(next, Tail(calls))

----------------------------------------------------------------------------
(* Access Synchronizer: updateKubeAccess *)

\* for namespace := range set: the keys of the map in the order this run visits them
IterOrder(set, rank) == SelectSeq(rank, LAMBDA ns : ns \in DOMAIN set)

IssueCalls_continue(op, order, failing) ==
    [i \in DOMAIN order |-> Call(op, order[i], order[i] \notin failing)]

\* one loop: a call per namespace, returning at the first error
RECURSIVE IssueCalls(_, _, _)
IssueCalls(op, order, failing) ==
    IF order = <<>> THEN <<>>
    ELSE LET ok == Head(order) \notin failing
         IN IF ok THEN <<Call(op, Head(order), TRUE)>> \o IssueCalls(op, Tail(order), failing)
            ELSE <<Call(op, Head(order), FALSE)>>

AllOK(calls) == \A i \in DOMAIN calls : calls[i].ok

SyncCalls_addFirst(namespacesToRemove, namespacesToAdd, env) ==
    LET additions == IssueCalls("CreateRegistrySecret",
                                IterOrder(namespacesToAdd, env.rank), env.failing)
        removals == IF AllOK(additions)
                    THEN IssueCalls("DeleteRegistrySecret",
                                    IterOrder(namespacesToRemove, env.rank), env.failing)
                    ELSE <<>>
    IN  additions \o removals

\* the two loops: every removal, then every addition, ending at the first error
\* the secrets of the removed namespaces are deleted and none is created
SyncCalls_removalsOnly(namespacesToRemove, namespacesToAdd, env) ==
    IssueCalls("DeleteRegistrySecret", IterOrder(namespacesToRemove, env.rank), env.failing)

SyncCalls(namespacesToRemove, namespacesToAdd, env) ==
    LET removals == IssueCalls("DeleteRegistrySecret",
                               IterOrder(namespacesToRemove, env.rank), env.failing)
        additions == IF AllOK(removals)
                     THEN IssueCalls("CreateRegistrySecret",
                                     IterOrder(namespacesToAdd, env.rank), env.failing)
                     ELSE <<>>
    IN  removals \o additions

SyncResult(err, calls, toRemove, toAdd) ==
    [err |-> err, calls |-> calls, toRemove |-> toRemove, toAdd |-> toAdd]

updateKubeAccess_noDelta(endpoint, reg, oldNamespaces, newNamespaces, env) ==
    LET oldNamespacesSet == toSet(oldNamespaces)
        newNamespacesSet == toSet(newNamespaces)
        calls == SyncCalls(oldNamespacesSet, newNamespacesSet, env)
    IN  IF env.clientErr
        THEN SyncResult(PlainError("GetKubeClient"), <<>>,
                        DOMAIN oldNamespacesSet, DOMAIN newNamespacesSet)
        ELSE SyncResult(IF AllOK(calls) THEN NoError ELSE PlainError("registry secret"),
                        calls, DOMAIN oldNamespacesSet, DOMAIN newNamespacesSet)

updateKubeAccess(endpoint, reg, oldNamespaces, newNamespaces, env) ==
    LET oldNamespacesSet == toSet(oldNamespaces)
        newNamespacesSet == toSet(newNamespaces)
        namespacesToRemove == setDifference(oldNamespacesSet, newNamespacesSet)
        namespacesToAdd == setDifference(newNamespacesSet, oldNamespacesSet)
        calls == SyncCalls(namespacesToRemove, namespacesToAdd, env)
    IN  IF env.clientErr
        THEN SyncResult(PlainError("GetKubeClient"), <<>>,
                        DOMAIN namespacesToRemove, DOMAIN namespacesToAdd)
        ELSE SyncResult(IF AllOK(calls) THEN NoError ELSE PlainError("registry secret"),
                        calls, DOMAIN namespacesToRemove, DOMAIN namespacesToAdd)

----------------------------------------------------------------------------
(* updateRegistryAccess: the mutation body of update-registry-access *)

\* what the body returns besides its error: the handle's view of the registry,
\* the external calls it issued, and what it read and computed on the way
RegistryBodyResult(err, view, payloadRead, payload, sync, calls, write) ==
    [err |-> err, view |-> view, payloadRead |-> payloadRead, payload |-> payload,
     syncRan |-> sync.ran, syncErr |-> sync.err,
     toRemove |-> sync.toRemove, toAdd |-> sync.toAdd,
     calls |-> calls, write |-> write]

NoSync == [ran |-> FALSE, err |-> NoError, toRemove |-> {}, toAdd |-> {}]

RegistryBodyAbort(err, view) ==
    RegistryBodyResult(err, view, FALSE, UnreadPayload, NoSync, <<>>, "none")

\* registry.RegistryAccesses[endpoint.ID], the zero value when there is none
AccessOf(reg, endpointID) ==
    IF endpointID \in DOMAIN reg.RegistryAccesses
    THEN reg.RegistryAccesses[endpointID]
    ELSE EmptyRegistryAccessPolicies

\* the record is stored under every environment of the registry
WithAccess_all(reg, endpointID, registryAccess) ==
    [reg EXCEPT !.RegistryAccesses =
        [id \in (DOMAIN reg.RegistryAccesses) \cup {endpointID} |-> registryAccess]]

\* registry.RegistryAccesses[endpointID] = registryAccess
WithAccess(reg, endpointID, registryAccess) ==
    [reg EXCEPT !.RegistryAccesses =
        [id \in (DOMAIN reg.RegistryAccesses) \cup {endpointID} |->
            IF id = endpointID THEN registryAccess ELSE reg.RegistryAccesses[id]]]

updateRegistryAccess(view, req, env) ==
    LET endpointID == req.endpointVar.val
        registryID == req.registryVar.val
        notFoundMsg == "Unable to find an environment with the specified identifier inside the database"
    IN
    IF env.endpointRead = "ok" /\ endpointID \notin DOMAIN endpoints
    THEN RegistryBodyAbort(NotFound(notFoundMsg), view)
    ELSE IF env.endpointRead # "ok"
    THEN RegistryBodyAbort(InternalServerError(notFoundMsg), view)
    ELSE IF env.ctxErr
    THEN RegistryBodyAbort(InternalServerError("Unable to retrieve info from request context"), view)
    ELSE IF ~env.authorized
    THEN RegistryBodyAbort(Forbidden("Permission denied to access environment"), view)
    ELSE IF ~req.IsAdmin
    THEN RegistryBodyAbort(Forbidden("User is not authorized"), view)
    ELSE IF env.registryRead = "ok" /\ registryID \notin RegistryIDs
    THEN RegistryBodyAbort(NotFound(notFoundMsg), view)
    ELSE IF env.registryRead # "ok"
    THEN RegistryBodyAbort(InternalServerError(notFoundMsg), view)
    ELSE IF ~req.payloadOK
    THEN RegistryBodyAbort(BadRequest("Invalid request payload"), view)
    ELSE
    LET endpoint == endpoints[endpointID]
        payload == req.payload
        registryAccess == AccessOf(view, endpoint.ID)
    IN  IF endpoint.Type \in KubernetesTypes
        THEN LET sync == updateKubeAccess(endpoint, view, registryAccess.Namespaces,
                                          payload.Namespaces, env)
                 ran == [ran |-> TRUE, err |-> sync.err,
                         toRemove |-> sync.toRemove, toAdd |-> sync.toAdd]
                 updated == WithAccess(view, endpointID,
                                [registryAccess EXCEPT !.Namespaces = payload.Namespaces])
             IN  IF sync.err # NoError
                 THEN RegistryBodyResult(
                        InternalServerError("Unable to update kube access policies"),
                        view, TRUE, payload, ran, sync.calls, "none")
                 ELSE RegistryBodyResult(
                        IF WriteError(env.write) THEN PlainError("Registry.Update") ELSE NoError,
                        Written(view, updated, env.write),
                        TRUE, payload, ran, sync.calls, env.write)
        ELSE LET updated == WithAccess(view, endpointID,
                                [registryAccess EXCEPT
                                    !.UserAccessPolicies = payload.UserAccessPolicies,
                                    !.TeamAccessPolicies = payload.TeamAccessPolicies])
             IN  RegistryBodyResult(
                    IF WriteError(env.write) THEN PlainError("Registry.Update") ELSE NoError,
                    Written(view, updated, env.write),
                    TRUE, payload, NoSync, <<>>, env.write)

----------------------------------------------------------------------------
(* Transactional Mutation Executor *)

\* handler.DataStore.UpdateTx(func(tx) error): the body's writes are pending
\* in the transaction; they are committed if the body returns nil and rolled
\* back if it returns an error, which is handed on unchanged
UpdateTx(persisted, res) ==
    [persisted |-> IF res.err = NoError THEN res.view ELSE persisted, err |-> res.err]

\* the body run with handler.DataStore: every write lands in the store at once
Direct(persisted, res) ==
    [persisted |-> res.view, err |-> res.err]

AsHandlerError_wrapAll(err) == InternalServerError("Unexpected error")

\* if errors.As(err, &httpErr) { return httpErr }; otherwise "Unexpected error"
AsHandlerError(err) ==
    IF err.kind = "http" THEN err ELSE InternalServerError("Unexpected error")

----------------------------------------------------------------------------
(* endpointRegistryAccess: the handler of update-registry-access *)

HandlerResult(response, persisted, handle, bodyCalls, body) ==
    [response |-> response, persisted |-> persisted, handle |-> handle,
     bodyCalls |-> bodyCalls, body |-> body]

\* the closure handed to UpdateTx runs the body on handler.DataStore, not on tx
endpointRegistryAccess_directInTx(noTx, persisted, req, env) ==
    IF ~req.endpointVar.ok
    THEN HandlerResult(BadRequest("Invalid environment identifier route variable"),
                       persisted, "none", 0, RegistryBodyAbort(NoError, persisted))
    ELSE IF ~req.registryVar.ok
    THEN HandlerResult(BadRequest("Invalid registry identifier route variable"),
                       persisted, "none", 0, RegistryBodyAbort(NoError, persisted))
    ELSE
    LET res == updateRegistryAccess(persisted, req, env)
        done == Direct(persisted, res)
    IN  HandlerResult(IF done.err # NoError THEN AsHandlerError(done.err) ELSE Success(204),
                      done.persisted, IF noTx THEN "direct" ELSE "tx", 1, res)

\* what the handler answers once the executor has run the body: done is what
\* the executor made of the body's result res
registryAnswer(noTx, res, done) ==
    HandlerResult(IF done.err # NoError THEN AsHandlerError(done.err) ELSE Success(204),
                  done.persisted, IF noTx THEN "direct" ELSE "tx", 1, res)

\* the body run under the executor the flag selects
registryExecute(noTx, persisted, res) ==
    registryAnswer(noTx, res,
                   IF noTx THEN Direct(persisted, res) ELSE UpdateTx(persisted, res))

endpointRegistryAccess(noTx, persisted, req, env) ==
    IF ~req.endpointVar.ok
    THEN HandlerResult(BadRequest("Invalid environment identifier route variable"),
                       persisted, "none", 0, RegistryBodyAbort(NoError, persisted))
    ELSE IF ~req.registryVar.ok
    THEN HandlerResult(BadRequest("Invalid registry identifier route variable"),
                       persisted, "none", 0, RegistryBodyAbort(NoError, persisted))
    ELSE
    registryExecute(noTx, persisted, updateRegistryAccess(persisted, req, env))

----------------------------------------------------------------------------
(* Settings Aggregate and the update payload *)

\* a []byte: nil, or a (possibly empty) slice
NilBytes == [isNil |-> TRUE, bytes |-> <<>>]
Bytes(b) == [isNil |-> FALSE, bytes |-> b]

\* a Helm repository URL is a string of characters: upper case, lower case
\* and the slash are what strings.ToLower and strings.TrimSuffix look at
DefaultHelmRepositoryURL == <<"d">>

LowerOf == [c \in {"a", "A", "b", "d", "D", "/", ":"} |->
               IF c = "A" THEN "a" ELSE IF c = "D" THEN "d" ELSE c]

\* strings.ToLower
ToLower(str) == [i \in DOMAIN str |-> LowerOf[str[i]]]

\* strings.TrimSuffix(str, "/")
TrimSuffix(str) ==
    IF Len(str) > 0 /\ str[Len(str)] = "/" THEN SubSeq(str, 1, Len(str) - 1) ELSE str

\* time.ParseDuration on the texts used here, in seconds
DurationTable ==
    [text \in {"0", "5m", "60m", "1h", "8h", "24h"} |->
        CASE text = "0" -> 0
          [] text = "5m" -> 300
          [] text = "60m" -> 3600
          [] text = "1h" -> 3600
          [] text = "8h" -> 28800
          [] text = "24h" -> 86400]

ParseDuration(text) ==
    IF text \in DOMAIN DurationTable
    THEN [ok |-> TRUE, val |-> DurationTable[text]]
    ELSE [ok |-> FALSE, val |-> 0]

\* govalidator.IsURL and edge.ParseHostForEdge on the texts used here
IsURL(text) == text # "::"

\* govalidator.IsURL on a Helm repository URL
IsHelmURL(str) == str # <<":", ":">>

DefaultLDAPSettings ==
    [ReaderDN |-> "", Password |-> "", URL |-> "",
     TLSConfig |-> [TLS |-> FALSE, TLSSkipVerify |-> FALSE, TLSCACertPath |-> ""],
     StartTLS |-> FALSE]

DefaultOAuthSettings == [ClientID |-> "", ClientSecret |-> "", KubeSecretKey |-> NilBytes]

DefaultSettings ==
    [LogoURL |-> "",
     BlackListedLabels |-> <<>>,
     AuthenticationMethod |-> 1,
     InternalAuthSettings |-> [RequiredPasswordLength |-> 12],
     LDAPSettings |-> DefaultLDAPSettings,
     OAuthSettings |-> DefaultOAuthSettings,
     SnapshotInterval |-> "5m",
     TemplatesURL |-> "",
     EdgeAgentCheckinInterval |-> 5,
     ShowKomposeBuildOption |-> FALSE,
     EnableEdgeComputeFeatures |-> FALSE,
     UserSessionTimeout |-> "8h",
     KubeconfigExpiry |-> "0",
     EnableTelemetry |-> FALSE,
     HelmRepositoryURL |-> DefaultHelmRepositoryURL,
     KubectlShellImage |-> "portainer/kubectl-shell",
     TrustOnFirstConnect |-> FALSE,
     EnforceEdgeID |-> FALSE,
     EdgePortainerURL |-> ""]

\* the TLS part of an LDAP block, as far as updateTLS reads it
LDAPTLSChoices ==
    {[TLS |-> FALSE, StartTLS |-> FALSE, TLSSkipVerify |-> FALSE],
     [TLS |-> TRUE, StartTLS |-> FALSE, TLSSkipVerify |-> FALSE],
     [TLS |-> FALSE, StartTLS |-> TRUE, TLSSkipVerify |-> TRUE]}

LDAPBlock(dn, pw, t) ==
    [ReaderDN |-> dn, Password |-> pw, URL |-> "ldap://srv",
     TLSConfig |-> [TLS |-> t.TLS, TLSSkipVerify |-> t.TLSSkipVerify, TLSCACertPath |-> ""],
     StartTLS |-> t.StartTLS]

\* the LDAP blocks of a payload: every pair of secrets without TLS, and every
\* TLS choice with one pair
LDAPPayloads ==
    {LDAPBlock(dn, pw, [TLS |-> FALSE, StartTLS |-> FALSE, TLSSkipVerify |-> FALSE]) :
        dn \in {"", "dn1", "dn2"}, pw \in {"", "S1", "S2"}}
    \cup {LDAPBlock("", "S1", t) : t \in LDAPTLSChoices}

\* the OAuth blocks of a payload: every client secret with one key, and every
\* key with one client secret
OAuthPayloads ==
    [ClientID : {"id1"}, ClientSecret : {"", "S1", "S2"}, KubeSecretKey : {NilBytes}]
    \cup [ClientID : {"id1"}, ClientSecret : {""},
          KubeSecretKey : {NilBytes, Bytes(<<>>), Bytes(<<1>>), Bytes(<<2>>)}]

\* the values a payload may carry in each of its fields
FieldValues ==
    [LogoURL |-> {"", "https://logo", "::"},
     BlackListedLabels |-> {<<"l1">>},
     AuthenticationMethod |-> {1, 3, 4},
     InternalAuthSettings |-> {[RequiredPasswordLength |-> 16]},
     LDAPSettings |-> LDAPPayloads,
     OAuthSettings |-> OAuthPayloads,
     SnapshotInterval |-> {"5m", "1h"},
     TemplatesURL |-> {"", "https://templates", "::"},
     EdgeAgentCheckinInterval |-> {10},
     ShowKomposeBuildOption |-> {TRUE},
     EnableEdgeComputeFeatures |-> BOOLEAN,
     UserSessionTimeout |-> {"8h", "5m", "60m", "soon"},
     KubeconfigExpiry |-> {"0", "24h", "never"},
     EnableTelemetry |-> {TRUE},
     HelmRepositoryURL |-> {<<>>, <<"a">>, <<"A", "/">>, <<"D">>, <<"b">>, <<":", ":">>,
                            <<"a", "/">>, <<"a", "/", "/">>},
     KubectlShellImage |-> {"other/shell"},
     TrustOnFirstConnect |-> {TRUE},
     EnforceEdgeID |-> {TRUE},
     EdgePortainerURL |-> {"", "https://edge", "::"}]

PayloadFields == DOMAIN FieldValues

\* a field of the payload is present (its pointer is not nil) when it is in
\* the payload's domain
Has(payload, f) == f \in DOMAIN payload

EmptyPayload == [f \in {} |-> TRUE]

With(payload, f, v) == [g \in (DOMAIN payload) \cup {f} |-> IF g = f THEN v ELSE payload[g]]

Without(payload, fs) == [g \in (DOMAIN payload) \ fs |-> payload[g]]

\* payloads with at most k fields present
RECURSIVE PayloadsUpTo(_)
PayloadsUpTo(k) ==
    IF k = 0 THEN {EmptyPayload}
    ELSE LET smaller == PayloadsUpTo(k - 1)
         IN  smaller \cup
             UNION {UNION {{With(p, f, v) : v \in FieldValues[f]} :
                               f \in PayloadFields \ DOMAIN p} : p \in smaller}

\* fields of the payload set in one update
MaxPresent == 1

\* payloads that set the fields a demo instance suppresses together with
\* another field
MixedPayloads ==
    {With(With(EmptyPayload, "EnableTelemetry", TRUE), "AuthenticationMethod", 3),
     With(With(EmptyPayload, "LogoURL", "https://logo"), "TemplatesURL", "https://templates"),
     With(With(EmptyPayload, "EnableTelemetry", TRUE), "UserSessionTimeout", "5m")}

SettingsPayloads == PayloadsUpTo(MaxPresent) \cup MixedPayloads

----------------------------------------------------------------------------
(* settingsUpdatePayload.Validate *)

Validate(payload) ==
    IF Has(payload, "AuthenticationMethod") /\ payload.AuthenticationMethod \notin {1, 2, 3}
    THEN PlainError("Invalid authentication method value")
    ELSE IF Has(payload, "LogoURL") /\ payload.LogoURL # "" /\ ~IsURL(payload.LogoURL)
    THEN PlainError("Invalid logo URL")
    ELSE IF Has(payload, "TemplatesURL") /\ payload.TemplatesURL # ""
            /\ ~IsURL(payload.TemplatesURL)
    THEN PlainError("Invalid external templates URL")
    ELSE IF Has(payload, "HelmRepositoryURL") /\ payload.HelmRepositoryURL # <<>>
            /\ ~IsHelmURL(payload.HelmRepositoryURL)
    THEN PlainError("Invalid Helm repository URL")
    ELSE IF Has(payload, "UserSessionTimeout") /\ ~ParseDuration(payload.UserSessionTimeout).ok
    THEN PlainError("Invalid user session timeout")
    ELSE IF Has(payload, "KubeconfigExpiry") /\ ~ParseDuration(payload.KubeconfigExpiry).ok
    THEN PlainError("Invalid Kubeconfig Expiry")
    ELSE IF Has(payload, "EdgePortainerURL") /\ payload.EdgePortainerURL # ""
            /\ ~IsURL(payload.EdgePortainerURL)
    THEN PlainError("ParseHostForEdge")
    ELSE NoError

----------------------------------------------------------------------------
(* Partial-Update Merge Engine: updateSettings, updateSnapshotInterval, updateTLS *)

\* the answers of the collaborators of a settings update
SettingsEnvOK ==
    [demo |-> FALSE, read |-> "ok", helm |-> TRUE, snapshot |-> TRUE, tlsDelete |-> TRUE, write |-> "ok"]

\* one collaborator at most answers an error: the first error ends the body,
\* so what the later ones would have answered is never read
SettingsEnvs ==
    {SettingsEnvOK,
     [SettingsEnvOK EXCEPT !.read = "error"],
     [SettingsEnvOK EXCEPT !.helm = FALSE],
     [SettingsEnvOK EXCEPT !.snapshot = FALSE],
     [SettingsEnvOK EXCEPT !.tlsDelete = FALSE],
     [SettingsEnvOK EXCEPT !.write = "error"],
     [SettingsEnvOK EXCEPT !.write = "errorApplied"]}

\* handler.demoService.IsDemo() answers yes or no
SettingsDemoEnvs == SettingsEnvs \cup {[SettingsEnvOK EXCEPT !.demo = TRUE]}

Overwrite_zero(s, payload, f) ==
    IF Has(payload, f) THEN [s EXCEPT ![f] = payload[f]] ELSE [s EXCEPT ![f] = DefaultSettings[f]]

\* if payload.F != nil { settings.F = *payload.F }
Overwrite(s, payload, f) == IF Has(payload, f) THEN [s EXCEPT ![f] = payload[f]] ELSE s

\* the result of a step of the body: the settings object in memory, the error
\* that ends the body there (if any) and the external calls issued so far
Step(s, err, calls) == [s |-> s, err |-> err, calls |-> calls]

updateSnapshotInterval(s, snapshotInterval, env) ==
    Step([s EXCEPT !.SnapshotInterval = snapshotInterval],
         IF env.snapshot THEN NoError ELSE PlainError("SetSnapshotInterval"),
         <<Call("SetSnapshotInterval", snapshotInterval, env.snapshot)>>)

updateTLS(s, env) ==
    IF (s.LDAPSettings.TLSConfig.TLS \/ s.LDAPSettings.StartTLS)
       /\ ~s.LDAPSettings.TLSConfig.TLSSkipVerify
    THEN Step([s EXCEPT !.LDAPSettings.TLSConfig.TLSCACertPath = "ldap/ca.pem"],
              NoError, <<Call("GetPathForTLSFile", "ldap", TRUE)>>)
    ELSE Step([s EXCEPT !.LDAPSettings.TLSConfig.TLSCACertPath = ""],
              IF env.tlsDelete THEN NoError
              ELSE InternalServerError("Unable to remove TLS files from disk"),
              <<Call("DeleteTLSFiles", "ldap", env.tlsDelete)>>)

\* the repository is checked whenever the payload names one
MergeHelm_always(s, payload, env) ==
    IF ~Has(payload, "HelmRepositoryURL") THEN Step(s, NoError, <<>>)
    ELSE IF payload.HelmRepositoryURL = <<>>
    THEN Step([s EXCEPT !.HelmRepositoryURL = <<>>], NoError, <<>>)
    ELSE LET newHelmRepo == TrimSuffix(ToLower(payload.HelmRepositoryURL))
         IN  Step(IF env.helm THEN [s EXCEPT !.HelmRepositoryURL = newHelmRepo] ELSE s,
                  IF env.helm THEN NoError
                  ELSE BadRequest("Invalid Helm repository URL. Must correspond to a valid URL format"),
                  <<Call("ValidateHelmRepositoryURL", payload.HelmRepositoryURL, env.helm)>>)

\* lines 172-188: the Helm repository URL
MergeHelm(s, payload, env) ==
    IF ~Has(payload, "HelmRepositoryURL") THEN Step(s, NoError, <<>>)
    ELSE IF payload.HelmRepositoryURL = <<>>
    THEN Step([s EXCEPT !.HelmRepositoryURL = <<>>], NoError, <<>>)
    ELSE LET newHelmRepo == TrimSuffix(ToLower(payload.HelmRepositoryURL))
         IN  IF newHelmRepo # s.HelmRepositoryURL /\ newHelmRepo # DefaultHelmRepositoryURL
             THEN Step(IF env.helm THEN [s EXCEPT !.HelmRepositoryURL = newHelmRepo] ELSE s,
                       IF env.helm THEN NoError
                       ELSE BadRequest("Invalid Helm repository URL. Must correspond to a valid URL format"),
                       <<Call("ValidateHelmRepositoryURL", payload.HelmRepositoryURL, env.helm)>>)
             ELSE Step([s EXCEPT !.HelmRepositoryURL = newHelmRepo], NoError, <<>>)

\* lines 198-213: the LDAP block keeps the stored secrets an empty field would clear
MergeLDAP(s, payload) ==
    IF ~Has(payload, "LDAPSettings") THEN s
    ELSE LET ldapReaderDN == IF payload.LDAPSettings.ReaderDN # ""
                             THEN payload.LDAPSettings.ReaderDN
                             ELSE s.LDAPSettings.ReaderDN
             ldapPassword == IF payload.LDAPSettings.Password # ""
                             THEN payload.LDAPSettings.Password
                             ELSE s.LDAPSettings.Password
         IN  [s EXCEPT !.LDAPSettings =
                [payload.LDAPSettings EXCEPT !.ReaderDN = ldapReaderDN,
                                             !.Password = ldapPassword]]

\* lines 215-228: the OAuth block
MergeOAuth(s, payload) ==
    IF ~Has(payload, "OAuthSettings") THEN s
    ELSE LET clientSecret == IF payload.OAuthSettings.ClientSecret = ""
                             THEN s.OAuthSettings.ClientSecret
                             ELSE payload.OAuthSettings.ClientSecret
             kubeSecret == IF payload.OAuthSettings.KubeSecretKey.isNil
                           THEN s.OAuthSettings.KubeSecretKey
                           ELSE payload.OAuthSettings.KubeSecretKey
         IN  [s EXCEPT !.OAuthSettings =
                [payload.OAuthSettings EXCEPT !.ClientSecret = clientSecret,
                                              !.KubeSecretKey = kubeSecret]]

DemoSuppressed_none(payload, env) == payload

\* lines 151-154: a demo instance drops EnableTelemetry and LogoURL from the
\* payload before any field is merged
DemoSuppressed(payload, env) ==
    IF env.demo THEN Without(payload, {"EnableTelemetry", "LogoURL"}) ELSE payload

\* the session timeout is stored and the JWT service is not told
MergeSessionTimeout_noCall(s, payload) ==
    IF Has(payload, "UserSessionTimeout")
    THEN Step([s EXCEPT !.UserSessionTimeout = payload.UserSessionTimeout], NoError, <<>>)
    ELSE Step(s, NoError, <<>>)

\* lines 261-267: the session timeout is stored and handed, parsed, to the
\* JWT service
MergeSessionTimeout(s, payload) ==
    IF Has(payload, "UserSessionTimeout")
    THEN Step([s EXCEPT !.UserSessionTimeout = payload.UserSessionTimeout], NoError,
              <<Call("SetUserSessionDuration",
                     ParseDuration(payload.UserSessionTimeout).val, TRUE)>>)
    ELSE Step(s, NoError, <<>>)

SettingsBodyResult(err, view, calls, write) ==
    [err |-> err, view |-> view, payloadRead |-> TRUE, payload |-> <<>>,
     syncRan |-> FALSE, syncErr |-> NoError, toRemove |-> {}, toAdd |-> {},
     calls |-> calls, write |-> write]

updateSettings(view, payloadIn, env) ==
    IF env.read # "ok"
    THEN SettingsBodyResult(
            InternalServerError("Unable to retrieve the settings from the database"),
            view, <<>>, "none")
    ELSE
    LET payload == DemoSuppressed(payloadIn, env)
        s1 == Overwrite(Overwrite(Overwrite(Overwrite(view,
                payload, "AuthenticationMethod"),
                payload, "LogoURL"),
                payload, "TemplatesURL"),
                payload, "ShowKomposeBuildOption")
        helm == MergeHelm(s1, payload, env)
    IN  IF helm.err # NoError THEN SettingsBodyResult(helm.err, view, helm.calls, "none")
    ELSE
    LET s2 == Overwrite(helm.s, payload, "BlackListedLabels")
        s3 == IF Has(payload, "InternalAuthSettings")
              THEN [s2 EXCEPT !.InternalAuthSettings.RequiredPasswordLength =
                                  payload.InternalAuthSettings.RequiredPasswordLength]
              ELSE s2
        s4 == MergeOAuth(MergeLDAP(s3, payload), payload)
        s5 == Overwrite(Overwrite(Overwrite(Overwrite(s4,
                payload, "EnableEdgeComputeFeatures"),
                payload, "TrustOnFirstConnect"),
                payload, "EnforceEdgeID"),
                payload, "EdgePortainerURL")
        snap == IF Has(payload, "SnapshotInterval")
                   /\ payload.SnapshotInterval # s5.SnapshotInterval
                THEN updateSnapshotInterval(s5, payload.SnapshotInterval, env)
                ELSE Step(s5, NoError, <<>>)
    IN  IF snap.err # NoError
        THEN SettingsBodyResult(InternalServerError("Unable to update snapshot interval"),
                                view, helm.calls \o snap.calls, "none")
    ELSE
    LET s6 == Overwrite(Overwrite(snap.s,
                payload, "EdgeAgentCheckinInterval"),
                payload, "KubeconfigExpiry")
        jwt == MergeSessionTimeout(s6, payload)
        s8 == Overwrite(jwt.s, payload, "EnableTelemetry")
        tls == updateTLS(s8, env)
        calls == helm.calls \o snap.calls \o jwt.calls \o tls.calls
    IN  IF tls.err # NoError THEN SettingsBodyResult(tls.err, view, calls, "none")
    ELSE
    LET s9 == Overwrite(tls.s, payload, "KubectlShellImage")
    IN  SettingsBodyResult(
            IF WriteError(env.write)
            THEN InternalServerError("Unable to persist settings changes inside the database")
            ELSE NoError,
            Written(view, s9, env.write), calls, env.write)

----------------------------------------------------------------------------
(* settingsUpdate: the handler of update-settings *)

\* the transaction opened for the body is never committed
settingsUpdate_txDiscarded(noTx, persisted, req, env) ==
    IF ~req.decodes \/ Validate(req.payload) # NoError
    THEN HandlerResult(BadRequest("Invalid request payload"), persisted, "none", 0,
                       [SettingsBodyResult(NoError, persisted, <<>>, "none")
                            EXCEPT !.payloadRead = FALSE])
    ELSE
    LET res == updateSettings(persisted, req.payload, env)
        done == IF noTx THEN Direct(persisted, res) ELSE [persisted |-> persisted, err |-> res.err]
    IN  HandlerResult(IF done.err # NoError THEN AsHandlerError(done.err) ELSE Success(200),
                      done.persisted, IF noTx THEN "direct" ELSE "tx", 1,
                      [res EXCEPT !.payload = req.payload])

\* the two branches of the mode selection exchanged
settingsUpdate_swapped(noTx, persisted, req, env) ==
    IF ~req.decodes \/ Validate(req.payload) # NoError
    THEN HandlerResult(BadRequest("Invalid request payload"), persisted, "none", 0,
                       [SettingsBodyResult(NoError, persisted, <<>>, "none")
                            EXCEPT !.payloadRead = FALSE])
    ELSE
    LET res == updateSettings(persisted, req.payload, env)
        done == IF noTx THEN UpdateTx(persisted, res) ELSE Direct(persisted, res)
    IN  HandlerResult(IF done.err # NoError THEN AsHandlerError(done.err) ELSE Success(200),
                      done.persisted, IF noTx THEN "tx" ELSE "direct", 1,
                      [res EXCEPT !.payload = req.payload])

\* what the handler answers once the executor has run the body: done is what
\* the executor made of the body's result res
settingsAnswer(noTx, req, res, done) ==
    HandlerResult(IF done.err # NoError THEN AsHandlerError(done.err) ELSE Success(200),
                  done.persisted, IF noTx THEN "direct" ELSE "tx", 1,
                  [res EXCEPT !.payload = req.payload])

\* the body run under the executor the flag selects
settingsExecute(noTx, persisted, req, res) ==
    settingsAnswer(noTx, req, res,
                   IF noTx THEN Direct(persisted, res) ELSE UpdateTx(persisted, res))

settingsUpdate(noTx, persisted, req, env) ==
    IF ~req.decodes \/ Validate(req.payload) # NoError
    THEN HandlerResult(BadRequest("Invalid request payload"), persisted, "none", 0,
                       [SettingsBodyResult(NoError, persisted, <<>>, "none")
                            EXCEPT !.payloadRead = FALSE])
    ELSE settingsExecute(noTx, persisted, req, updateSettings(persisted, req.payload, env))

----------------------------------------------------------------------------
(* userUpdatePassword: the handler of update-password *)

UserIDs == {1}

\* CryptoService.Hash and CompareHashAndData: a hash matches the text it was
\* made from and no other
Hash(text) == <<"hash", text>>

CompareHashAndData(hash, data) == hash = Hash(data)

NewUser == [Password |-> Hash("pw0"), TokenIssueAt |-> 0]

\* the bodies update-password may receive
PasswordPayloads == [Password : {"", "pw0", "bad"}, NewPassword : {"", "pw1"}]

\* userUpdatePasswordPayload.Validate
ValidatePassword(payload) ==
    IF payload.Password = "" THEN PlainError("Invalid current password")
    ELSE IF payload.NewPassword = "" THEN PlainError("Invalid new password")
    ELSE NoError

\* the answers of the collaborators of update-password, none an error;
\* now is what time.Now().Unix() answers
PasswordEnvOK ==
    [demoUser |-> FALSE, tokenErr |-> FALSE, admin |-> FALSE, self |-> TRUE,
     read |-> "ok", strong |-> TRUE, hashErr |-> FALSE, now |-> 1, write |-> "ok"]

PasswordEnvs ==
    {PasswordEnvOK,
     [PasswordEnvOK EXCEPT !.demoUser = TRUE],
     [PasswordEnvOK EXCEPT !.tokenErr = TRUE],
     [PasswordEnvOK EXCEPT !.self = FALSE],
     [PasswordEnvOK EXCEPT !.self = FALSE, !.admin = TRUE],
     [PasswordEnvOK EXCEPT !.read = "error"],
     [PasswordEnvOK EXCEPT !.strong = FALSE],
     [PasswordEnvOK EXCEPT !.hashErr = TRUE],
     [PasswordEnvOK EXCEPT !.now = 2],
     [PasswordEnvOK EXCEPT !.write = "error"],
     [PasswordEnvOK EXCEPT !.write = "errorApplied"]}

\* what the handler answers, what the store holds afterwards, the outcome of
\* the store write it made (if any) and whether it got as far as comparing
\* the current password
PasswordResult(response, persisted, write, compared) ==
    [response |-> response, persisted |-> persisted, write |-> write, compared |-> compared]

\* the strength check is made after the user has been written
userUpdatePassword_checkLast(persisted, req, env) ==
    IF ~req.userVar.ok
    THEN PasswordResult(BadRequest("Invalid user identifier route variable"),
                        persisted, "none", FALSE)
    ELSE IF env.demoUser
    THEN PasswordResult(Forbidden("This feature is not available in the demo version of Portainer"),
                        persisted, "none", FALSE)
    ELSE IF env.tokenErr
    THEN PasswordResult(InternalServerError("Unable to retrieve user authentication token"),
                        persisted, "none", FALSE)
    ELSE IF ~env.admin /\ ~env.self
    THEN PasswordResult(Forbidden("Permission denied to update user"), persisted, "none", FALSE)
    ELSE IF ~req.payloadOK \/ ValidatePassword(req.payload) # NoError
    THEN PasswordResult(BadRequest("Invalid request payload"), persisted, "none", FALSE)
    ELSE IF env.read = "ok" /\ req.userVar.val \notin DOMAIN persisted
    THEN PasswordResult(NotFound("Unable to find a user with the specified identifier inside the database"),
                        persisted, "none", FALSE)
    ELSE IF env.read # "ok"
    THEN PasswordResult(InternalServerError("Unable to find a user with the specified identifier inside the database"),
                        persisted, "none", FALSE)
    ELSE
    LET userID == req.userVar.val
        user == persisted[userID]
        updated == [user EXCEPT !.Password = Hash(req.payload.NewPassword),
                                !.TokenIssueAt = env.now]
    IN  IF ~CompareHashAndData(user.Password, req.payload.Password)
        THEN PasswordResult(Forbidden("Current password doesn't match"), persisted, "none", TRUE)
        ELSE IF env.hashErr
        THEN PasswordResult(InternalServerError("Unable to hash user password"),
                            persisted, "none", TRUE)
        ELSE PasswordResult(
                IF WriteError(env.write)
                THEN InternalServerError("Unable to persist user changes inside the database")
                ELSE IF ~env.strong
                THEN BadRequest("Password does not meet the requirements")
                ELSE Success(204),
                Written(persisted, [persisted EXCEPT ![userID] = updated], env.write),
                env.write, TRUE)

userUpdatePassword(persisted, req, env) ==
    IF ~req.userVar.ok
    THEN PasswordResult(BadRequest("Invalid user identifier route variable"),
                        persisted, "none", FALSE)
    ELSE IF env.demoUser
    THEN PasswordResult(Forbidden("This feature is not available in the demo version of Portainer"),
                        persisted, "none", FALSE)
    ELSE IF env.tokenErr
    THEN PasswordResult(InternalServerError("Unable to retrieve user authentication token"),
                        persisted, "none", FALSE)
    ELSE IF ~env.admin /\ ~env.self
    THEN PasswordResult(Forbidden("Permission denied to update user"), persisted, "none", FALSE)
    ELSE IF ~req.payloadOK \/ ValidatePassword(req.payload) # NoError
    THEN PasswordResult(BadRequest("Invalid request payload"), persisted, "none", FALSE)
    ELSE IF env.read = "ok" /\ req.userVar.val \notin DOMAIN persisted
    THEN PasswordResult(NotFound("Unable to find a user with the specified identifier inside the database"),
                        persisted, "none", FALSE)
    ELSE IF env.read # "ok"
    THEN PasswordResult(InternalServerError("Unable to find a user with the specified identifier inside the database"),
                        persisted, "none", FALSE)
    ELSE
    LET userID == req.userVar.val
        user == persisted[userID]
        updated == [user EXCEPT !.Password = Hash(req.payload.NewPassword),
                                !.TokenIssueAt = env.now]
    IN  IF ~CompareHashAndData(user.Password, req.payload.Password)
        THEN PasswordResult(Forbidden("Current password doesn't match"), persisted, "none", TRUE)
        ELSE IF ~env.strong
        THEN PasswordResult(BadRequest("Password does not meet the requirements"),
                            persisted, "none", TRUE)
        ELSE IF env.hashErr
        THEN PasswordResult(InternalServerError("Unable to hash user password"),
                            persisted, "none", TRUE)
        ELSE PasswordResult(
                IF WriteError(env.write)
                THEN InternalServerError("Unable to persist user changes inside the database")
                ELSE Success(204),
                Written(persisted, [persisted EXCEPT ![userID] = updated], env.write),
                env.write, TRUE)

----------------------------------------------------------------------------
(* State *)

Snapshot ==
    [settings |-> settings, registry |-> registry, secrets |-> secrets, users |-> users]

\* a request that is no update-password
NoPasswordRequest ==
    [userID |-> 0, payload |-> [Password |-> "", NewPassword |-> ""], compared |-> FALSE,
     strong |-> FALSE]

NoRequest ==
    [op |-> "none", noTx |-> FALSE, handle |-> "none", bodyCalls |-> 0,
     endpointID |-> 0, demo |-> FALSE,
     payloadRead |-> FALSE, payload |-> UnreadPayload,
     pre |-> <<>>, view |-> <<>>,
     bodyErr |-> NoError, response |-> NoError, calls |-> <<>>,
     syncRan |-> FALSE, syncErr |-> NoError, toRemove |-> {}, toAdd |-> {},
     write |-> "none",
     alt |-> [persisted |-> <<>>, calls |-> <<>>, bodyErr |-> NoError],
     pw |-> NoPasswordRequest]

\* the answers of the collaborators of update-registry-access, none an error
RegistryEnvOK ==
    [endpointRead |-> "ok", ctxErr |-> FALSE, authorized |-> TRUE, registryRead |-> "ok",
     clientErr |-> FALSE, rank |-> <<"ns1", "ns2", "ns3">>, failing |-> {}, write |-> "ok"]

\* the answers that decide whether the body gets as far as decoding the
\* payload.  One collaborator at most answers an error: the first error ends
\* the body, so what the later ones would have answered is never read
RegistryGateEnvs ==
    {RegistryEnvOK,
     [RegistryEnvOK EXCEPT !.endpointRead = "error"],
     [RegistryEnvOK EXCEPT !.ctxErr = TRUE],
     [RegistryEnvOK EXCEPT !.authorized = FALSE],
     [RegistryEnvOK EXCEPT !.registryRead = "error"]}

\* what decides whether the body gets as far as decoding the payload: the
\* route variables, the caller's role and the collaborators' answers, at most
\* one of them off
RegistryGates ==
    LET good == {[ok |-> TRUE, val |-> v] : v \in DOMAIN endpoints}
        reg  == [ok |-> TRUE, val |-> 1]
    IN  {[endpointVar |-> e, registryVar |-> reg, IsAdmin |-> TRUE, env |-> g] :
            e \in good, g \in RegistryGateEnvs}
        \cup {[endpointVar |-> e, registryVar |-> reg, IsAdmin |-> FALSE, env |-> RegistryEnvOK] :
            e \in good}
        \cup {[endpointVar |-> e, registryVar |-> reg, IsAdmin |-> TRUE, env |-> RegistryEnvOK] :
            e \in RouteVars(DOMAIN endpoints) \ good}
        \cup {[endpointVar |-> [ok |-> TRUE, val |-> 1], registryVar |-> r, IsAdmin |-> TRUE,
               env |-> RegistryEnvOK] :
            r \in RouteVars(RegistryIDs) \ {reg}}

RegistryRequest(endpointVar, registryVar, IsAdmin, payloadOK, payload) ==
    [endpointVar |-> endpointVar, registryVar |-> registryVar, IsAdmin |-> IsAdmin,
     payloadOK |-> payloadOK, payload |-> payload]

\* some fixed order of a set
RECURSIVE SomeOrder(_)
SomeOrder(S) ==
    IF S = {} THEN <<>> ELSE LET x == CHOOSE y \in S : TRUE IN <<x>> \o SomeOrder(S \ {x})

\* the orders in which one run may visit the namespaces: every order of the
\* removals with every order of the additions; orders that differ only on
\* namespaces no loop visits are one
Ranks(toRemove, toAdd) ==
    {p \o q \o SomeOrder(Namespaces \ (toRemove \cup toAdd)) :
        p \in Perms(toRemove), q \in Perms(toAdd \ toRemove)}

\* the state after the handler has answered req under env; altEnv is env with
\* the iteration order of a second run of the same request
RegistryServed(req, env, altEnv) ==
    \E h \in {endpointRegistryAccess(featureNoTx, registry, req, env)},
       a \in {endpointRegistryAccess(~featureNoTx, registry, req, altEnv)} :
        /\ registry' = h.persisted
        /\ secrets' = [e \in DOMAIN secrets |->
                          IF e = req.endpointVar.val
                          THEN ApplyCalls(secrets[e], h.body.calls) ELSE secrets[e]]
        /\ last' = [op |-> "endpointRegistryAccess", noTx |-> featureNoTx,
                    handle |-> h.handle, bodyCalls |-> h.bodyCalls,
                    endpointID |-> req.endpointVar.val, demo |-> FALSE,
                    payloadRead |-> h.body.payloadRead, payload |-> h.body.payload,
                    pre |-> Snapshot, view |-> h.body.view,
                    bodyErr |-> h.body.err, response |-> h.response,
                    calls |-> h.body.calls,
                    syncRan |-> h.body.syncRan, syncErr |-> h.body.syncErr,
                    toRemove |-> h.body.toRemove, toAdd |-> h.body.toAdd,
                    write |-> h.body.write,
                    alt |-> [persisted |-> a.persisted, calls |-> a.body.calls,
                             bodyErr |-> a.body.err],
                    pw |-> NoPasswordRequest]
        /\ nreq' = nreq + 1
        /\ UNCHANGED <<featureNoTx, settings, users, race, retry, passwd>>

\* the requests update-registry-access may receive in the present state, each
\* with the collaborators' answers to it and to a second run of it.  What the
\* body never reads is not varied: a request that ends before the payload is
\* decoded carries no payload, the loops stop at the first failing call, and
\* the iteration order of the second run matters once the first succeeded
RegistryCase(req, env, altEnv) == [req |-> req, env |-> env, altEnv |-> altEnv]

RegistryCases ==
    UNION {
        LET req == RegistryRequest(g.endpointVar, g.registryVar, g.IsAdmin, TRUE, payload)
            dry == updateRegistryAccess(registry, req, g.env)
            ranks == Ranks(dry.toRemove, dry.toAdd)
        IN  IF ~g.endpointVar.ok \/ ~g.registryVar.ok \/ ~dry.payloadRead
            THEN {RegistryCase([req EXCEPT !.payload = UnreadPayload], g.env, g.env)}
            ELSE {RegistryCase([req EXCEPT !.payloadOK = FALSE, !.payload = UnreadPayload],
                               g.env, g.env)}
                 \cup
                 (IF ~dry.syncRan
                  THEN {RegistryCase(req, [g.env EXCEPT !.write = write],
                                          [g.env EXCEPT !.write = write]) :
                            write \in WriteOutcomes}
                  ELSE {RegistryCase(req, [g.env EXCEPT !.clientErr = TRUE],
                                          [g.env EXCEPT !.clientErr = TRUE])}
                       \cup {RegistryCase(req,
                                 [g.env EXCEPT !.rank = rank, !.failing = {failed}],
                                 [g.env EXCEPT !.rank = rank, !.failing = {failed}]) :
                                 rank \in ranks, failed \in dry.toRemove \cup dry.toAdd}
                       \cup {RegistryCase(req, [g.env EXCEPT !.rank = rank],
                                               [g.env EXCEPT !.rank = altRank]) :
                                 rank \in ranks, altRank \in ranks}
                       \cup {RegistryCase(req,
                                 [g.env EXCEPT !.rank = rank, !.write = write],
                                 [g.env EXCEPT !.rank = rank, !.write = write]) :
                                 rank \in ranks, write \in WriteOutcomes \ {"ok"}})
        : g \in RegistryGates, payload \in RegistryAccessPayloads}

\* update-registry-access: one request
EndpointRegistryAccessRequest ==
    /\ nreq < MaxRequests
    /\ \E c \in RegistryCases : RegistryServed(c.req, c.env, c.altEnv)

\* update-settings: one request
SettingsUpdateRequest ==
    /\ nreq < MaxRequests
    /\ \/ \E h \in {settingsUpdate(featureNoTx, settings,
                        [decodes |-> FALSE, payload |-> EmptyPayload], SettingsEnvOK)} :
            /\ settings' = h.persisted
            /\ last' = [NoRequest EXCEPT !.op = "settingsUpdate", !.noTx = featureNoTx,
                            !.pre = Snapshot, !.response = h.response,
                            !.payload = EmptyPayload,
                            !.alt = [persisted |-> h.persisted, calls |-> <<>>,
                                     bodyErr |-> NoError]]
            /\ nreq' = nreq + 1
            /\ UNCHANGED <<featureNoTx, registry, secrets, users, race, retry, passwd>>
       \/ \E payload \in SettingsPayloads, env \in SettingsDemoEnvs :
          \E h \in {settingsUpdate(featureNoTx, settings,
                        [decodes |-> TRUE, payload |-> payload], env)},
             a \in {settingsUpdate(~featureNoTx, settings,
                        [decodes |-> TRUE, payload |-> payload], env)} :
            /\ settings' = h.persisted
            /\ last' = [op |-> "settingsUpdate", noTx |-> featureNoTx,
                        handle |-> h.handle, bodyCalls |-> h.bodyCalls,
                        endpointID |-> 0, demo |-> env.demo,
                        payloadRead |-> h.body.payloadRead, payload |-> payload,
                        pre |-> Snapshot, view |-> h.body.view,
                        bodyErr |-> h.body.err, response |-> h.response,
                        calls |-> h.body.calls,
                        syncRan |-> FALSE, syncErr |-> NoError,
                        toRemove |-> {}, toAdd |-> {},
                        write |-> h.body.write,
                        alt |-> [persisted |-> a.persisted, calls |-> a.body.calls,
                                 bodyErr |-> a.body.err],
                        pw |-> NoPasswordRequest]
            /\ nreq' = nreq + 1
            /\ UNCHANGED <<featureNoTx, registry, secrets, users, race, retry, passwd>>

\* the requests update-password may receive, each with the collaborators'
\* answers to it: a request whose route variable or body is off meets no
\* collaborator error
PasswordCases ==
    {[req |-> [userVar |-> [ok |-> TRUE, val |-> 1], payloadOK |-> TRUE, payload |-> payload],
      env |-> env] : payload \in PasswordPayloads, env \in PasswordEnvs}
    \cup {[req |-> [userVar |-> v, payloadOK |-> TRUE,
                    payload |-> [Password |-> "pw0", NewPassword |-> "pw1"]],
           env |-> PasswordEnvOK] : v \in RouteVars(UserIDs)}
    \cup {[req |-> [userVar |-> [ok |-> TRUE, val |-> 1], payloadOK |-> FALSE,
                    payload |-> [Password |-> "", NewPassword |-> ""]],
           env |-> PasswordEnvOK]}

\* update-password: one request
UserUpdatePasswordRequest ==
    /\ nreq < MaxRequests
    /\ \E c \in PasswordCases :
       \E h \in {userUpdatePassword(users, c.req, c.env)} :
            /\ users' = h.persisted
            /\ last' = [NoRequest EXCEPT !.op = "userUpdatePassword", !.noTx = featureNoTx,
                            !.pre = Snapshot, !.response = h.response, !.write = h.write,
                            !.pw = [userID |-> c.req.userVar.val, payload |-> c.req.payload,
                                    compared |-> h.compared, strong |-> c.env.strong]]
            /\ nreq' = nreq + 1
            /\ UNCHANGED <<featureNoTx, settings, registry, secrets, race, retry, passwd>>

----------------------------------------------------------------------------
(* Requests in flight: the body's read and its write as two steps *)

\* the requests in flight: two update-settings and two update-registry-access
RaceProcs == 1..4

RaceOp(p) == IF p <= 2 THEN "settingsUpdate" ELSE "endpointRegistryAccess"

RaceSettingsPayloads ==
    {With(EmptyPayload, "TemplatesURL", "https://templates"),
     With(EmptyPayload, "KubeconfigExpiry", "24h"),
     With(EmptyPayload, "SnapshotInterval", "1h")}

RaceRegistryRequests ==
    {RegistryRequest([ok |-> TRUE, val |-> 1], [ok |-> TRUE, val |-> 1], TRUE, TRUE,
                     [EmptyRegistryAccessPolicies EXCEPT !.Namespaces = <<"ns1">>]),
     RegistryRequest([ok |-> TRUE, val |-> 2], [ok |-> TRUE, val |-> 1], TRUE, TRUE,
                     [EmptyRegistryAccessPolicies EXCEPT !.UserAccessPolicies = {1},
                                                         !.TeamAccessPolicies = {2}])}

RaceRequests(op) ==
    IF op = "settingsUpdate" THEN RaceSettingsPayloads ELSE RaceRegistryRequests

\* a request not yet received.  seen is the number of writes of the same
\* operation that had been made when the request read the aggregate, wrote
\* the place of its own write among them
RaceIdle ==
    [stage |-> "idle", req |-> <<>>, view |-> <<>>, seen |-> 0, wrote |-> 0, err |-> NoError]

NoRace ==
    [procs |-> [p \in RaceProcs |-> RaceIdle],
     writes |-> [settingsUpdate |-> 0, endpointRegistryAccess |-> 0]]

\* the request of p is received and its body reads the aggregate
RaceRead(p) ==
    /\ featureNoTx
    /\ race.procs[p].stage = "idle"
    /\ \E req \in RaceRequests(RaceOp(p)) :
          race' = [race EXCEPT !.procs[p] =
                      [stage |-> "read", req |-> req,
                       view |-> IF RaceOp(p) = "settingsUpdate" THEN settings ELSE registry,
                       seen |-> race.writes[RaceOp(p)], wrote |-> 0, err |-> NoError]]
    /\ UNCHANGED <<featureNoTx, settings, registry, secrets, users, nreq, last, retry, passwd>>

RaceWritten(p, err) ==
    [race EXCEPT !.procs[p].stage = "done", !.procs[p].err = err,
                 !.procs[p].wrote = race.writes[RaceOp(p)] + 1,
                 !.writes[RaceOp(p)] = race.writes[RaceOp(p)] + 1]

\* the body merges the payload into the aggregate the store holds now
settingsRaceWrite_reread(view, persisted, payload) ==
    Direct(persisted, updateSettings(persisted, payload, SettingsEnvOK))

\* the rest of updateSettings in direct mode: the payload is merged into the
\* aggregate the body has read, and the result replaces what the store holds
settingsRaceWrite(view, persisted, payload) ==
    Direct(persisted, updateSettings(view, payload, SettingsEnvOK))

\* the rest of updateRegistryAccess in direct mode
registryRaceWrite(view, persisted, req) ==
    Direct(persisted, updateRegistryAccess(view, req, RegistryEnvOK))

RaceSettingsWrite(p) ==
    /\ race.procs[p].stage = "read" /\ RaceOp(p) = "settingsUpdate"
    /\ \E done \in {settingsRaceWrite(race.procs[p].view, settings, race.procs[p].req)} :
          /\ settings' = done.persisted
          /\ race' = RaceWritten(p, done.err)
    /\ UNCHANGED <<featureNoTx, registry, secrets, users, nreq, last, retry, passwd>>

RaceRegistryWrite(p) ==
    /\ race.procs[p].stage = "read" /\ RaceOp(p) = "endpointRegistryAccess"
    /\ \E done \in {registryRaceWrite(race.procs[p].view, registry, race.procs[p].req)},
          calls \in {updateRegistryAccess(race.procs[p].view, race.procs[p].req,
                                          RegistryEnvOK).calls} :
          /\ registry' = done.persisted
          /\ secrets' = [e \in DOMAIN secrets |->
                            IF e = race.procs[p].req.endpointVar.val
                            THEN ApplyCalls(secrets[e], calls) ELSE secrets[e]]
          /\ race' = RaceWritten(p, done.err)
    /\ UNCHANGED <<featureNoTx, settings, users, nreq, last, retry, passwd>>

----------------------------------------------------------------------------
(* update-password requests in flight: the read of the user and the rest of
   the handler as two steps *)

PasswordProcs == 1..2

\* the requests in flight: the caller presents the first password or the one
\* a concurrent request may have set, and asks for one of two new ones
PasswordRaceCases ==
    {[req |-> [userVar |-> [ok |-> TRUE, val |-> 1], payloadOK |-> TRUE,
               payload |-> [Password |-> current, NewPassword |-> new]],
      env |-> env] :
        current \in {"pw0", "pw1"}, new \in {"pw1", "pw2"},
        env \in {PasswordEnvOK,
                 [PasswordEnvOK EXCEPT !.now = 2],
                 [PasswordEnvOK EXCEPT !.self = FALSE],
                 [PasswordEnvOK EXCEPT !.self = FALSE, !.admin = TRUE],
                 [PasswordEnvOK EXCEPT !.strong = FALSE]}}

\* a request not yet received.  view is the store as the handler read it,
\* before the hash stored when the handler wrote, changed whether it wrote
\* the user, written the user it wrote
PasswordIdle ==
    [stage |-> "idle", req |-> <<>>, env |-> PasswordEnvOK, view |-> <<>>,
     before |-> <<>>, changed |-> FALSE, written |-> NewUser, response |-> NoError,
     seen |-> 0, wrote |-> 0]

NoPasswordRace == [procs |-> [p \in PasswordProcs |-> PasswordIdle], writes |-> 0]

\* the request of p is received and the handler reads the user
PasswordRead(p) ==
    /\ passwd.procs[p].stage = "idle"
    /\ \E c \in PasswordRaceCases :
          passwd' = [passwd EXCEPT !.procs[p] =
                        [PasswordIdle EXCEPT !.stage = "read", !.req = c.req, !.env = c.env,
                                             !.view = users, !.seen = passwd.writes]]
    /\ UNCHANGED <<featureNoTx, settings, registry, secrets, users, nreq, last, race, retry>>

\* the user is read again before the current password is compared
passwordRaceWrite_reread(view, persisted, req, env) ==
    userUpdatePassword(persisted, req, env)

\* the rest of userUpdatePassword: the answer comes from the user the handler
\* has read, and User().Update replaces the stored user with the one it made
\* of it
passwordRaceWrite(view, persisted, req, env) ==
    userUpdatePassword(view, req, env)

PasswordWrite(p) ==
    /\ passwd.procs[p].stage = "read"
    /\ \E h \in {passwordRaceWrite(passwd.procs[p].view, users,
                                   passwd.procs[p].req, passwd.procs[p].env)} :
       \E id \in {passwd.procs[p].req.userVar.val} :
          /\ users' = IF h.write = "ok"
                      THEN [users EXCEPT ![id] = h.persisted[id]]
                      ELSE users
          /\ passwd' = [passwd EXCEPT
                          !.procs[p].stage = "done",
                          !.procs[p].before = users[id].Password,
                          !.procs[p].changed = (h.write = "ok"),
                          !.procs[p].written = h.persisted[id],
                          !.procs[p].response = h.response,
                          !.procs[p].wrote = IF h.write = "ok" THEN passwd.writes + 1 ELSE 0,
                          !.writes = IF h.write = "ok" THEN passwd.writes + 1
                                     ELSE passwd.writes]
    /\ UNCHANGED <<featureNoTx, settings, registry, secrets, nreq, last, race, retry>>

----------------------------------------------------------------------------
(* A client repeating an update-registry-access that failed *)

\* requests served before the one that is repeated
MaxSetup == 3

\* no request is being repeated.  old is the persisted namespace set when the
\* request first failed, agreed whether the secrets of the cluster were in
\* exactly those namespaces before it, again whether a repetition has failed
NoRetry ==
    [stage |-> "none", endpointID |-> 0, Namespaces |-> <<>>, old |-> {},
     agreed |-> FALSE, again |-> FALSE]

RetryNamespaceLists == {<<>>, <<"ns1">>, <<"ns2">>, <<"ns1", "ns2">>}

\* update-registry-access of an administrator on the Kubernetes environment
RetryRequest(namespaces) ==
    RegistryRequest([ok |-> TRUE, val |-> 1], [ok |-> TRUE, val |-> 1], TRUE, TRUE,
                    [EmptyRegistryAccessPolicies EXCEPT !.Namespaces = namespaces])

\* the ways one attempt can fail: a secret call on one namespace, or the
\* store write
RetryFailures ==
    {[RegistryEnvOK EXCEPT !.failing = {"ns1"}],
     [RegistryEnvOK EXCEPT !.failing = {"ns2"}],
     [RegistryEnvOK EXCEPT !.write = "error"]}

RetryCases ==
    {RegistryCase(RetryRequest(namespaces), env, env) :
        namespaces \in RetryNamespaceLists, env \in RetryFailures \cup {RegistryEnvOK}}

\* a request served before any is repeated
RetrySetup ==
    /\ retry.stage = "none"
    /\ nreq < MaxSetup
    /\ \E c \in RetryCases : RegistryServed(c.req, c.env, c.altEnv)

\* the last request failed partway and left the persisted record as it was:
\* its caller starts repeating it
RetryBegin ==
    /\ retry.stage = "none"
    /\ last.op = "endpointRegistryAccess" /\ last.syncRan
    /\ last.response.kind = "http" /\ last.response.code = 500
    /\ registry = last.pre.registry
    /\ retry' = [stage |-> "pending", endpointID |-> last.endpointID,
                 Namespaces |-> last.payload.Namespaces,
                 old |-> Range(AccessOf(last.pre.registry, last.endpointID).Namespaces),
                 agreed |-> last.pre.secrets[last.endpointID]
                            = Range(AccessOf(last.pre.registry, last.endpointID).Namespaces),
                 again |-> FALSE]
    /\ UNCHANGED <<featureNoTx, settings, registry, secrets, users, nreq, last, race, passwd>>

\* the repeated request served once more under env
RetryAttempt(env) ==
    /\ retry.stage = "pending"
    /\ \E h \in {endpointRegistryAccess(featureNoTx, registry,
                                        RetryRequest(retry.Namespaces), env)} :
          /\ registry' = h.persisted
          /\ secrets' = [e \in DOMAIN secrets |->
                            IF e = retry.endpointID
                            THEN ApplyCalls(secrets[e], h.body.calls) ELSE secrets[e]]
          /\ retry' = IF h.response = Success(204)
                      THEN [retry EXCEPT !.stage = "done"]
                      ELSE [retry EXCEPT !.again = TRUE]
    /\ UNCHANGED <<featureNoTx, settings, users, nreq, last, race, passwd>>

RetryFails == \E env \in RetryFailures : RetryAttempt(env)

\* every external call and the store write succeed
RetrySucceeds == RetryAttempt(RegistryEnvOK)

Init ==
    /\ featureNoTx \in BOOLEAN
    /\ settings = DefaultSettings
    /\ registry = NewRegistry
    /\ secrets = [e \in KubeEndpointIDs |-> {}]
    /\ users = [u \in UserIDs |-> NewUser]
    /\ nreq = 0
    /\ last = NoRequest
    /\ race = NoRace
    /\ retry = NoRetry
    /\ passwd = NoPasswordRace

Next == SettingsUpdateRequest \/ EndpointRegistryAccessRequest \/ UserUpdatePasswordRequest

Spec == Init /\ [][Next]_vars

\* update-registry-access alone
NextRegistry == EndpointRegistryAccessRequest

SpecRegistry == Init /\ [][NextRegistry]_vars

\* update-settings alone
NextSettings == SettingsUpdateRequest

SpecSettings == Init /\ [][NextSettings]_vars

\* update-password alone
NextPassword == UserUpdatePasswordRequest

SpecPassword == Init /\ [][NextPassword]_vars

\* direct-mode requests whose reads and writes interleave
NextRace == \E p \in RaceProcs : RaceRead(p) \/ RaceSettingsWrite(p) \/ RaceRegistryWrite(p)

SpecRace == Init /\ [][NextRace]_vars

\* update-password requests whose reads and writes interleave
NextPasswordRace == \E p \in PasswordProcs : PasswordRead(p) \/ PasswordWrite(p)

SpecPasswordRace == Init /\ [][NextPasswordRace]_vars

\* update-registry-access with a client that repeats a failed request.  The
\* client keeps repeating and the external calls eventually succeed: an
\* attempt in which all of them succeed is not postponed forever
NextRetry == RetrySetup \/ RetryBegin \/ RetryFails \/ RetrySucceeds

SpecRetry == Init /\ [][NextRetry]_vars /\ WF_vars(RetrySucceeds)

----------------------------------------------------------------------------
(* Properties of update-registry-access *)

IsRegistryRequest == last.op = "endpointRegistryAccess"

\* the namespace list persisted for the request's environment before it ran
OldNamespaces == AccessOf(last.pre.registry, last.endpointID).Namespaces

\* the namespace list of the request's payload
NewNamespaces == last.payload.Namespaces

\* the namespace list persisted for the request's environment now
StoredNamespaces == AccessOf(registry, last.endpointID).Namespaces

CountCalls(calls, op, arg) ==
    Cardinality({i \in DOMAIN calls : calls[i].op = op /\ calls[i].arg = arg})

HasDuplicate(list) == Len(list) > Cardinality(Range(list))

\* C5: for all old and new namespace lists, duplicates and empty lists
\* included, the delta computed by updateKubeAccess is toAdd = set(new) \ set(old)
\* and toRemove = set(old) \ set(new); the two are disjoint, and two empty
\* lists give two empty sets.
C5_SetReconciler ==
    (IsRegistryRequest /\ last.syncRan) =>
        /\ last.toAdd = Range(NewNamespaces) \ Range(OldNamespaces)
        /\ last.toRemove = Range(OldNamespaces) \ Range(NewNamespaces)
        /\ last.toAdd \cap last.toRemove = {}
        /\ (OldNamespaces = <<>> /\ NewNamespaces = <<>>) =>
                (last.toAdd = {} /\ last.toRemove = {})

C5_Witness ==
    /\ IsRegistryRequest /\ last.syncRan
    /\ HasDuplicate(OldNamespaces) /\ HasDuplicate(NewNamespaces)
    /\ last.toAdd # {} /\ last.toRemove # {}

\* C6: a successful updateKubeAccess issues exactly one DeleteRegistrySecret
\* call for each namespace of old \ new, exactly one CreateRegistrySecret call
\* for each namespace of new \ old, and no other external call.
C6_MinimalSideEffects ==
    (IsRegistryRequest /\ last.syncRan /\ last.syncErr = NoError) =>
        /\ \A ns \in Namespaces :
            /\ CountCalls(last.calls, "DeleteRegistrySecret", ns) =
                  (IF ns \in Range(OldNamespaces) \ Range(NewNamespaces) THEN 1 ELSE 0)
            /\ CountCalls(last.calls, "CreateRegistrySecret", ns) =
                  (IF ns \in Range(NewNamespaces) \ Range(OldNamespaces) THEN 1 ELSE 0)
        /\ \A i \in DOMAIN last.calls :
            /\ last.calls[i].op \in {"DeleteRegistrySecret", "CreateRegistrySecret"}
            /\ last.calls[i].arg \in Namespaces

C6_Witness ==
    /\ IsRegistryRequest /\ last.syncRan /\ last.syncErr = NoError
    /\ Range(OldNamespaces) = {"ns1", "ns2"}
    /\ Range(NewNamespaces) = {"ns2", "ns3"}
    /\ last.calls = <<Call("DeleteRegistrySecret", "ns1", TRUE),
                      Call("CreateRegistrySecret", "ns3", TRUE)>>

\* C7: within one updateKubeAccess run every DeleteRegistrySecret call comes
\* before any CreateRegistrySecret call, and a create is issued only once
\* every removal of the delta has been made and has succeeded.
C7_RemovalsBeforeAdditions ==
    (IsRegistryRequest /\ last.syncRan) =>
        /\ \A i, j \in DOMAIN last.calls :
            (last.calls[i].op = "DeleteRegistrySecret"
                /\ last.calls[j].op = "CreateRegistrySecret") => i < j
        /\ (\E j \in DOMAIN last.calls : last.calls[j].op = "CreateRegistrySecret") =>
            \A ns \in last.toRemove :
                \E i \in DOMAIN last.calls :
                    last.calls[i] = Call("DeleteRegistrySecret", ns, TRUE)

C7_Witness ==
    /\ IsRegistryRequest /\ last.syncRan
    /\ Cardinality(last.toRemove) = 2
    /\ \E j \in DOMAIN last.calls : last.calls[j].op = "CreateRegistrySecret"

\* C8: the first failing delete or create call of updateKubeAccess is the
\* last external call of the request; the error is returned, the new
\* namespace list is neither assigned nor written, so the persisted registry
\* record is the old one, while the secrets the earlier calls changed stay
\* changed.
C8_FailFast ==
    (IsRegistryRequest /\ last.syncRan /\ ~AllOK(last.calls)) =>
        /\ \A i \in DOMAIN last.calls : ~last.calls[i].ok => i = Len(last.calls)
        /\ last.syncErr # NoError
        /\ last.bodyErr = InternalServerError("Unable to update kube access policies")
        /\ last.response = last.bodyErr
        /\ last.write = "none"
        /\ registry = last.pre.registry
        /\ \A i \in DOMAIN last.calls :
            last.calls[i].ok =>
                IF last.calls[i].op = "DeleteRegistrySecret"
                THEN last.calls[i].arg \notin secrets[last.endpointID]
                ELSE last.calls[i].arg \in secrets[last.endpointID]

C8_Witness ==
    /\ IsRegistryRequest /\ last.syncRan /\ ~AllOK(last.calls)
    /\ last.handle = "tx"
    /\ Len(last.calls) = 3
    /\ secrets # last.pre.secrets
    /\ StoredNamespaces = OldNamespaces /\ OldNamespaces # NewNamespaces

\* C9: when the persisted namespace set of a namespace-oriented environment
\* already is N (as after a successful update to N), an update-registry-access
\* to N computes an empty delta, issues no external secret call and leaves
\* the persisted namespace set equal to N.
C9_Idempotence ==
    (IsRegistryRequest /\ last.syncRan /\ Range(OldNamespaces) = Range(NewNamespaces)) =>
        /\ last.toAdd = {} /\ last.toRemove = {}
        /\ last.calls = <<>>
        /\ Range(StoredNamespaces) = Range(NewNamespaces)

C9_Witness ==
    /\ IsRegistryRequest /\ last.syncRan
    /\ nreq = 2
    /\ Cardinality(Range(NewNamespaces)) = 2
    /\ Range(OldNamespaces) = Range(NewNamespaces)
    /\ secrets[last.endpointID] = Range(NewNamespaces)
    /\ last.response = Success(204)
    /\ last.calls = <<>>

----------------------------------------------------------------------------
(* Properties of the executor, for both handlers *)

IsSettingsRequest == last.op = "settingsUpdate"

\* the aggregate the last request's handler reads and writes, as persisted
\* now and as persisted before the request
Aggregate == IF IsSettingsRequest THEN settings ELSE registry

PreAggregate == IF IsSettingsRequest THEN last.pre.settings ELSE last.pre.registry

\* the handler got as far as the mode selection and ran the body
BodyRan == last.handle # "none"

\* C1: when the body runs inside the store transaction and returns an error
\* at any step, the persisted Settings Aggregate and the persisted registry
\* record are afterwards what they were before the request.
C1_TransactionalAbort ==
    (last.handle = "tx" /\ last.bodyErr # NoError) =>
        /\ settings = last.pre.settings
        /\ registry = last.pre.registry

C1_Witness ==
    /\ IsRegistryRequest /\ last.handle = "tx" /\ last.bodyErr # NoError
    /\ last.calls # <<>>
    /\ last.write = "errorApplied" /\ last.view # last.pre.registry
    /\ registry = last.pre.registry

SameCalls(a, b) ==
    /\ Len(a) = Len(b)
    /\ \A c \in Range(a) \cup Range(b) :
        Cardinality({i \in DOMAIN a : a[i] = c}) = Cardinality({i \in DOMAIN b : b[i] = c})

\* C2 as claimed: whenever the body succeeds, the same request run under the
\* other executor mode from the same store state produces the same persisted
\* aggregate and the same sequence of external calls.
C2_SameSequence ==
    (BodyRan /\ last.bodyErr = NoError) =>
        /\ last.alt.bodyErr = NoError
        /\ last.alt.persisted = Aggregate
        /\ last.alt.calls = last.calls

\* C2, amended: whenever the body succeeds, the same request run under the
\* other executor mode from the same store state produces the same persisted
\* aggregate and the same external calls, each as often; update-settings
\* issues them in the same order, while the order among the secret deletes
\* and among the secret creates of updateKubeAccess is that of a map
\* iteration, which no mode fixes.
C2_ExecutorEquivalence ==
    (BodyRan /\ last.bodyErr = NoError) =>
        /\ last.alt.bodyErr = NoError
        /\ last.alt.persisted = Aggregate
        /\ SameCalls(last.alt.calls, last.calls)
        /\ IsSettingsRequest => last.alt.calls = last.calls

C2_Witness ==
    /\ IsRegistryRequest /\ BodyRan /\ last.bodyErr = NoError
    /\ Len(last.calls) = 2
    /\ last.alt.calls # last.calls
    /\ last.alt.persisted = registry /\ registry # last.pre.registry

\* C3 as claimed: the flag read by the handler being false runs the body once
\* on the direct store handle, and the flag being true runs it once inside a
\* transaction that commits on success and rolls back on error.
C3_FlagFalseIsDirect ==
    BodyRan =>
        /\ last.bodyCalls = 1
        /\ ~last.noTx => (last.handle = "direct" /\ Aggregate = last.view)
        /\ last.noTx =>
            /\ last.handle = "tx"
            /\ Aggregate = IF last.bodyErr = NoError THEN last.view ELSE PreAggregate

\* C3, amended: for a request that gets as far as the mode selection, the
\* flag the handler reads is FeatureNoTx: enabled, the body runs exactly once
\* on the direct store handle, so what it wrote is persisted whether or not it
\* returns an error; disabled, the body runs exactly once inside a transaction
\* that commits on success and rolls back on error.
C3_ModeSelection ==
    BodyRan =>
        /\ last.bodyCalls = 1
        /\ last.noTx => (last.handle = "direct" /\ Aggregate = last.view)
        /\ ~last.noTx =>
            /\ last.handle = "tx"
            /\ Aggregate = IF last.bodyErr = NoError THEN last.view ELSE PreAggregate

C3_Witness ==
    /\ IsSettingsRequest /\ last.noTx /\ last.handle = "direct" /\ last.bodyCalls = 1
    /\ last.bodyErr # NoError
    /\ settings = last.view /\ settings # last.pre.settings

\* C4: in both executor modes an error of the body that carries a
\* classification is answered with exactly that classification and message,
\* and only an unclassified error is answered as the internal error
\* "Unexpected error".
C4_ClassificationPassthrough ==
    (BodyRan /\ last.bodyErr # NoError) =>
        IF last.bodyErr.kind = "http"
        THEN last.response = last.bodyErr
        ELSE last.response = InternalServerError("Unexpected error")

C4_Witness ==
    /\ last.handle = "tx" /\ last.bodyErr = Forbidden("User is not authorized")
    /\ last.response.code = 403

----------------------------------------------------------------------------
(* Properties of update-settings *)

\* the value the secret merge rule asks for: the payload's when its block is
\* present and the field in it is not empty, the stored one otherwise
MergedSecret(block, field, empty) ==
    IF Has(last.payload, block) /\ last.payload[block][field] # empty
    THEN last.payload[block][field]
    ELSE last.pre.settings[block][field]

\* C10: after a successful settings update each secret field (LDAP Password,
\* LDAP ReaderDN, OAuth ClientSecret, OAuth KubeSecretKey) is the payload's
\* value when the payload's block supplied a non-empty one and the stored
\* value otherwise, and a stored non-empty secret is never replaced by an
\* empty one.
C10_SecretMerge ==
    (IsSettingsRequest /\ last.response = Success(200)) =>
        /\ settings.LDAPSettings.Password = MergedSecret("LDAPSettings", "Password", "")
        /\ settings.LDAPSettings.ReaderDN = MergedSecret("LDAPSettings", "ReaderDN", "")
        /\ settings.OAuthSettings.ClientSecret = MergedSecret("OAuthSettings", "ClientSecret", "")
        /\ settings.OAuthSettings.KubeSecretKey.bytes =
              (IF Has(last.payload, "OAuthSettings")
                  /\ last.payload.OAuthSettings.KubeSecretKey.bytes # <<>>
               THEN last.payload.OAuthSettings.KubeSecretKey.bytes
               ELSE last.pre.settings.OAuthSettings.KubeSecretKey.bytes)
        /\ last.pre.settings.LDAPSettings.Password # "" => settings.LDAPSettings.Password # ""
        /\ last.pre.settings.LDAPSettings.ReaderDN # "" => settings.LDAPSettings.ReaderDN # ""
        /\ last.pre.settings.OAuthSettings.ClientSecret # ""
              => settings.OAuthSettings.ClientSecret # ""
        /\ last.pre.settings.OAuthSettings.KubeSecretKey.bytes # <<>>
              => settings.OAuthSettings.KubeSecretKey.bytes # <<>>

\* C10, the part the code keeps: the three string secrets follow the merge
\* rule, and so does KubeSecretKey unless the payload carries an empty key
\* that is not nil.
C10_SecretMergeButEmptyKey ==
    (IsSettingsRequest /\ last.response = Success(200)) =>
        /\ settings.LDAPSettings.Password = MergedSecret("LDAPSettings", "Password", "")
        /\ settings.LDAPSettings.ReaderDN = MergedSecret("LDAPSettings", "ReaderDN", "")
        /\ settings.OAuthSettings.ClientSecret = MergedSecret("OAuthSettings", "ClientSecret", "")
        /\ ~(Has(last.payload, "OAuthSettings")
                /\ last.payload.OAuthSettings.KubeSecretKey = Bytes(<<>>)) =>
              settings.OAuthSettings.KubeSecretKey.bytes =
                  (IF Has(last.payload, "OAuthSettings")
                      /\ last.payload.OAuthSettings.KubeSecretKey.bytes # <<>>
                   THEN last.payload.OAuthSettings.KubeSecretKey.bytes
                   ELSE last.pre.settings.OAuthSettings.KubeSecretKey.bytes)


\* the reconfigurations of dependent subsystems a settings update triggers
Reconfigurations == {"SetSnapshotInterval", "SetUserSessionDuration"}

\* the reconfigurations the last request carried out
Reconfigured == {i \in DOMAIN last.calls :
                    last.calls[i].op \in Reconfigurations /\ last.calls[i].ok}

\* C11: whenever updateSettings returns an error, no reconfiguration of a
\* dependent subsystem (SetSnapshotInterval, SetUserSessionDuration) has been
\* carried out.
C11_ReconfigureOnlyOnSuccess ==
    (IsSettingsRequest /\ BodyRan /\ last.bodyErr # NoError) => Reconfigured = {}

\* the fields the body copies verbatim from the payload when they are present
\* and that no other rule touches
SimpleOverwriteFields ==
    {"AuthenticationMethod", "TemplatesURL", "ShowKomposeBuildOption", "BlackListedLabels",
     "EnableEdgeComputeFeatures", "TrustOnFirstConnect", "EnforceEdgeID", "EdgePortainerURL",
     "EdgeAgentCheckinInterval", "KubeconfigExpiry", "KubectlShellImage"}

\* the fields a demo instance suppresses
SuppressedFields == {"EnableTelemetry", "LogoURL"}

\* C13: on a demo instance a settings update leaves EnableTelemetry and
\* LogoURL at their persisted values whatever the payload contains, and the
\* other fields of the payload are merged as on any instance.
C13_DemoSuppression ==
    (IsSettingsRequest /\ last.demo) =>
        /\ \A f \in SuppressedFields : settings[f] = last.pre.settings[f]
        /\ last.response = Success(200) =>
            \A f \in (SimpleOverwriteFields \cup {"UserSessionTimeout", "SnapshotInterval"})
                        \cap DOMAIN last.payload :
                settings[f] = last.payload[f]

C13_Witness ==
    /\ IsSettingsRequest /\ last.demo /\ last.response = Success(200)
    /\ Has(last.payload, "EnableTelemetry") /\ last.payload.EnableTelemetry
    /\ ~settings.EnableTelemetry
    /\ Has(last.payload, "AuthenticationMethod")
    /\ settings.AuthenticationMethod = 3 /\ last.pre.settings.AuthenticationMethod = 1

\* C14: a successful settings update whose payload holds only
\* UserSessionTimeout = d, d different from the stored timeout, persists d
\* and issues exactly one SetUserSessionDuration call, with d parsed, and no
\* other reconfiguration of a dependent subsystem.
C14_SessionTimeout ==
    (/\ IsSettingsRequest /\ last.response = Success(200)
     /\ DOMAIN last.payload = {"UserSessionTimeout"}
     /\ last.payload.UserSessionTimeout # last.pre.settings.UserSessionTimeout) =>
        /\ settings.UserSessionTimeout = last.payload.UserSessionTimeout
        /\ Cardinality({i \in DOMAIN last.calls :
                            last.calls[i].op \in Reconfigurations}) = 1
        /\ CountCalls(last.calls, "SetUserSessionDuration",
                      DurationTable[last.payload.UserSessionTimeout]) = 1

C14_Witness ==
    /\ IsSettingsRequest /\ last.response = Success(200)
    /\ last.payload = With(EmptyPayload, "UserSessionTimeout", "5m")
    /\ last.pre.settings.UserSessionTimeout = "60m"
    /\ settings.UserSessionTimeout = "5m"
    /\ CountCalls(last.calls, "SetUserSessionDuration", 300) = 1

\* C19: after a successful settings update every simple overwrite field the
\* payload omits has its previous value and every one the payload contains
\* has the payload's value (LogoURL and EnableTelemetry likewise wherever the
\* instance is no demo), and a payload with no field present leaves the whole
\* persisted aggregate as it was.
C19_AbsentFieldsUntouched ==
    (IsSettingsRequest /\ last.response = Success(200)) =>
        /\ \A f \in SimpleOverwriteFields \cup (IF last.demo THEN {} ELSE SuppressedFields) :
            settings[f] = IF Has(last.payload, f) THEN last.payload[f]
                          ELSE last.pre.settings[f]
        /\ last.payload = EmptyPayload => settings = last.pre.settings

C19_Witness ==
    /\ IsSettingsRequest /\ last.response = Success(200)
    /\ DOMAIN last.payload = {"KubeconfigExpiry"} /\ settings.KubeconfigExpiry = "24h"
    /\ last.pre.settings.KubeconfigExpiry = "0"
    /\ last.pre.settings.TemplatesURL = "https://templates"
    /\ settings.TemplatesURL = "https://templates"

\* the calls of the external Helm repository check in the last request
HelmChecks == {i \in DOMAIN last.calls : last.calls[i].op = "ValidateHelmRepositoryURL"}

\* the last settings update got as far as the Helm repository URL
ReachedHelm == IsSettingsRequest /\ BodyRan /\ last.bodyErr.msg # "Unable to retrieve the settings from the database"

\* what the failure of the Helm check must leave behind
HelmFailureAborts ==
    (IsSettingsRequest /\ \E i \in HelmChecks : ~last.calls[i].ok) =>
        /\ last.response.kind = "http" /\ last.response.code = 400
        /\ settings = last.pre.settings
        /\ Reconfigured = {}

----------------------------------------------------------------------------
(* Frame of update-registry-access *)

\* C18: update-registry-access on a Kubernetes environment leaves the user and
\* team access policies of that environment's record as they were and, when
\* it succeeds, stores the payload's Namespaces; on any other environment it
\* leaves Namespaces as they were, issues no external secret call and, when
\* it succeeds, stores the payload's user and team access policies; the
\* records of every other environment of the registry are unchanged.
C18_AccessModeFrame ==
    IsRegistryRequest =>
        /\ \A e \in DOMAIN endpoints \ {last.endpointID} :
              AccessOf(registry, e) = AccessOf(last.pre.registry, e)
        /\ last.endpointID \in DOMAIN endpoints =>
              LET old == AccessOf(last.pre.registry, last.endpointID)
                  new == AccessOf(registry, last.endpointID)
                  ok  == last.response = Success(204)
              IN  IF endpoints[last.endpointID].Type \in KubernetesTypes
                  THEN /\ new.UserAccessPolicies = old.UserAccessPolicies
                       /\ new.TeamAccessPolicies = old.TeamAccessPolicies
                       /\ ok => new.Namespaces = last.payload.Namespaces
                  ELSE /\ new.Namespaces = old.Namespaces
                       /\ last.calls = <<>>
                       /\ ok => /\ new.UserAccessPolicies = last.payload.UserAccessPolicies
                                /\ new.TeamAccessPolicies = last.payload.TeamAccessPolicies

C18_Witness ==
    /\ IsRegistryRequest /\ last.response = Success(204)
    /\ last.endpointID \in KubeEndpointIDs
    /\ last.payload.UserAccessPolicies = {1} /\ last.payload.Namespaces = <<"ns1">>
    /\ AccessOf(registry, last.endpointID).UserAccessPolicies = {}
    /\ AccessOf(registry, last.endpointID).Namespaces = <<"ns1">>
    /\ \E e \in DOMAIN endpoints \ KubeEndpointIDs :
          /\ AccessOf(registry, e).UserAccessPolicies = {1}
          /\ AccessOf(registry, e).Namespaces = <<>>

----------------------------------------------------------------------------
(* Rejected requests and update-password *)

IsPasswordRequest == last.op = "userUpdatePassword"

\* the last request was answered BadRequest or Forbidden
Rejected == last.response.kind = "http" /\ last.response.code \in {400, 403}

\* C12: whenever update-settings, update-registry-access or update-password
\* answers BadRequest or Forbidden, no store write has been performed, no
\* external secret call has been issued and no dependent subsystem has been
\* reconfigured.
C12_NoMutationOnRejected ==
    Rejected =>
        /\ last.write = "none"
        /\ settings = last.pre.settings /\ registry = last.pre.registry
        /\ users = last.pre.users
        /\ secrets = last.pre.secrets
        /\ \A i \in DOMAIN last.calls :
              last.calls[i].op \notin
                  Reconfigurations \cup {"DeleteRegistrySecret", "CreateRegistrySecret"}

C12_Witness ==
    /\ IsPasswordRequest /\ Rejected /\ last.pw.compared /\ ~last.pw.strong
    /\ last.pre.users[1].TokenIssueAt = 1
    /\ users = last.pre.users

\* the last update-password compared the current password and it did not match
Mismatched ==
    /\ IsPasswordRequest /\ last.pw.compared
    /\ ~CompareHashAndData(last.pre.users[last.pw.userID].Password, last.pw.payload.Password)

\* the last update-password got a matching current password and a new one
\* that fails the strength check
Weak ==
    /\ IsPasswordRequest /\ last.pw.compared /\ ~Mismatched /\ ~last.pw.strong

\* C17: in update-password a current password that does not match the stored
\* hash and a new password that fails the strength check are both answered
\* with the InvalidInput classification (BadRequest), and in both cases the
\* stored password hash and TokenIssueAt are unchanged.
C17_PasswordFailuresInvalidInput ==
    (Mismatched \/ Weak) =>
        /\ last.response.kind = "http" /\ last.response.code = 400
        /\ users = last.pre.users

\* C17, the part the code keeps: a mismatch is answered Forbidden, a weak new
\* password BadRequest, and in both cases the stored user is unchanged.
C17_PasswordFailuresAsCoded ==
    /\ Mismatched => (last.response = Forbidden("Current password doesn't match")
                      /\ users = last.pre.users)
    /\ Weak => (last.response = BadRequest("Password does not meet the requirements")
                /\ users = last.pre.users)

C17_Witness ==
    /\ Mismatched /\ last.pw.payload.Password = "pw0"
    /\ last.response.code = 403
    /\ users[1].TokenIssueAt = 2

----------------------------------------------------------------------------
(* Concurrent direct-mode requests *)

\* p and q are requests of the same operation that both read the aggregate
\* before either wrote it; p wrote first and q last
RacePair(p, q) ==
    /\ p # q /\ RaceOp(p) = RaceOp(q)
    /\ race.procs[p].stage = "done" /\ race.procs[q].stage = "done"
    /\ race.procs[p].seen = 0 /\ race.procs[q].seen = 0
    /\ race.procs[p].wrote = 1 /\ race.procs[q].wrote = 2

\* C15: when two concurrent direct-mode update-settings requests, or two
\* concurrent direct-mode update-registry-access requests on the same
\* registry, both read the aggregate before either writes, no write is refused
\* for being stale and the persisted aggregate keeps the later writer's
\* changes only: what the earlier writer alone changed is back at the value
\* both had read.
C15_LostUpdate ==
    /\ \A p \in RaceProcs : race.procs[p].stage = "done" => race.procs[p].err = NoError
    /\ \A p, q \in RaceProcs :
          RacePair(p, q) /\ RaceOp(p) = "settingsUpdate" =>
             /\ \A f \in DOMAIN race.procs[p].req \ DOMAIN race.procs[q].req :
                   settings[f] = race.procs[p].view[f]
             /\ \A f \in DOMAIN race.procs[q].req : settings[f] = race.procs[q].req[f]
    /\ \A p, q \in RaceProcs :
          RacePair(p, q) /\ RaceOp(p) = "endpointRegistryAccess"
          /\ race.procs[p].req.endpointVar.val # race.procs[q].req.endpointVar.val =>
             /\ AccessOf(registry, race.procs[p].req.endpointVar.val)
                    = AccessOf(race.procs[p].view, race.procs[p].req.endpointVar.val)
             /\ AccessOf(registry, race.procs[q].req.endpointVar.val)
                    # AccessOf(race.procs[q].view, race.procs[q].req.endpointVar.val)

C15_Witness ==
    /\ \E p, q \in RaceProcs :
          /\ RacePair(p, q) /\ RaceOp(p) = "settingsUpdate"
          /\ \E f \in DOMAIN race.procs[p].req \ DOMAIN race.procs[q].req :
                /\ race.procs[p].req[f] # race.procs[p].view[f]
                /\ settings[f] = DefaultSettings[f]
    /\ \E p, q \in RaceProcs :
          /\ RacePair(p, q) /\ RaceOp(p) = "endpointRegistryAccess"
          /\ race.procs[p].req.endpointVar.val = 1 /\ race.procs[q].req.endpointVar.val = 2
          /\ AccessOf(registry, 1) = EmptyRegistryAccessPolicies
          /\ secrets[1] = {"ns1"}

----------------------------------------------------------------------------
(* Repeating a failed update-registry-access *)

\* the persisted namespaces are those of the repeated request, the cluster
\* holds the registry's secret in each of them and in none of those the
\* request removes
Converged ==
    /\ AccessOf(registry, retry.endpointID).Namespaces = retry.Namespaces
    /\ Range(retry.Namespaces) \subseteq secrets[retry.endpointID]
    /\ secrets[retry.endpointID] \cap (retry.old \ Range(retry.Namespaces)) = {}

\* C16 as stated: after an update-registry-access to namespace set N has
\* failed partway with the persisted set still the old one, repeating the
\* request until it succeeds eventually reaches a state where the persisted
\* set is N and the secrets exist in every namespace of N and in no namespace
\* of old \ N.
C16_ConvergenceByRetry ==
    (retry.stage = "pending") ~> (retry.stage = "done" /\ Converged)

\* C16: the same, for a request that first failed while the cluster held the
\* registry's secrets in exactly the persisted namespaces.
C16_ConvergenceFromAgreement ==
    (retry.stage = "pending" /\ retry.agreed) ~> (retry.stage = "done" /\ Converged)

C16_Witness ==
    /\ retry.stage = "done" /\ retry.agreed /\ retry.again /\ Converged
    /\ retry.old \ Range(retry.Namespaces) # {}
    /\ Range(retry.Namespaces) \ retry.old # {}

----------------------------------------------------------------------------
(* Concurrent update-password requests *)

\* the request of p has changed the stored user
PasswordChanged(p) == passwd.procs[p].stage = "done" /\ passwd.procs[p].changed

\* p and q both read the user before either wrote, presented the same current
\* password, and both changed the stored user
BothSucceeded(p, q) ==
    /\ p # q /\ PasswordChanged(p) /\ PasswordChanged(q)
    /\ passwd.procs[p].seen = 0 /\ passwd.procs[q].seen = 0
    /\ passwd.procs[p].req.payload.Password = passwd.procs[q].req.payload.Password

\* C21 as stated: a user's stored password hash changes only through a
\* request whose caller is an administrator or that same user, whose supplied
\* current password matches the hash stored at the time of the write, and
\* whose new password passes the strength check; every such change sets
\* TokenIssueAt, and two concurrent requests presenting the same old current
\* password cannot both succeed.
C21_PasswordChangeGuard ==
    /\ \A p \in PasswordProcs :
          PasswordChanged(p) =>
             /\ passwd.procs[p].env.admin \/ passwd.procs[p].env.self
             /\ CompareHashAndData(passwd.procs[p].before,
                                   passwd.procs[p].req.payload.Password)
             /\ passwd.procs[p].env.strong
             /\ passwd.procs[p].written.TokenIssueAt = passwd.procs[p].env.now
    /\ \A p, q \in PasswordProcs : ~BothSucceeded(p, q)

\* C21, the part the code keeps: the hash changes only through a request
\* whose caller is an administrator or that same user, whose supplied current
\* password matches the hash the handler had read, and whose new password
\* passes the strength check; the user written carries the new hash and the
\* TokenIssueAt of that request, and a request that changed nothing was
\* answered with an error.
C21_GuardOnHashRead ==
    \A p \in PasswordProcs :
       /\ PasswordChanged(p) =>
             /\ passwd.procs[p].env.admin \/ passwd.procs[p].env.self
             /\ CompareHashAndData(passwd.procs[p].view[1].Password,
                                   passwd.procs[p].req.payload.Password)
             /\ passwd.procs[p].env.strong
             /\ passwd.procs[p].written.Password
                    = Hash(passwd.procs[p].req.payload.NewPassword)
             /\ passwd.procs[p].written.TokenIssueAt = passwd.procs[p].env.now
             /\ passwd.procs[p].response = Success(204)
       /\ (passwd.procs[p].stage = "done" /\ ~passwd.procs[p].changed) =>
             /\ passwd.procs[p].response # Success(204)
             /\ passwd.procs[p].wrote = 0

C21_Witness ==
    \E p, q \in PasswordProcs :
       /\ BothSucceeded(p, q)
       /\ passwd.procs[p].wrote = 1 /\ passwd.procs[q].wrote = 2
       /\ passwd.procs[q].before = Hash("pw1")
       /\ passwd.procs[q].req.payload.Password = "pw0"
       /\ users[1].Password = Hash("pw2")

====
